---- MODULE Spec2Model ----
(***************************************************************************)
(* Request-resolution workflow of the graph agent (src/graph_agent).       *)
(*                                                                         *)
(* The LangGraph workflow of agent.py is modelled node by node: every node *)
(* is an operator from (GraphState, preference store, oracle answers) to   *)
(* the GraphState it returns, the store it leaves behind and the exception *)
(* it raises, and every node has one action that applies the operator and  *)
(* follows the edge create_graph() wires after it.                         *)
(*                                                                         *)
(* Python values are represented as follows.                               *)
(*   None            the string None ("<None>"), never a real value        *)
(*   str             a TLA+ string                                         *)
(*   dict            a record                                              *)
(*   list            a sequence                                            *)
(*   missing_params  a sequence; the empty sequence stands for None (the   *)
(*                   code never stores an empty list)                      *)
(*   config_change   a record; NoConfigChange stands for None              *)
(*   input_data      the JSON value the string encodes (json.dumps and     *)
(*                   json.loads are inverse on JSON values), as a record   *)
(*                   [kind, items]; kind "none" stands for None            *)
(***************************************************************************)
EXTENDS Integers, Sequences, FiniteSets, TLC

None == "<None>"

(***************************************************************************)
(* Strings: the str methods and the regular expressions the code uses.     *)
(***************************************************************************)
Char(s, i) == SubSeq(s, i, i)

UpperCase == <<"A","B","C","D","E","F","G","H","I","J","K","L","M",
               "N","O","P","Q","R","S","T","U","V","W","X","Y","Z">>
LowerCase == <<"a","b","c","d","e","f","g","h","i","j","k","l","m",
               "n","o","p","q","r","s","t","u","v","w","x","y","z">>
Digits == {"0","1","2","3","4","5","6","7","8","9"}
Letters == {UpperCase[i] : i \in 1..26} \cup {LowerCase[i] : i \in 1..26}
Whitespace == {" "}

UpperToLower ==
    [c \in {UpperCase[i] : i \in 1..26} |-> LowerCase[CHOOSE i \in 1..26 : UpperCase[i] = c]]
LowerToUpper ==
    [c \in {LowerCase[i] : i \in 1..26} |-> UpperCase[CHOOSE i \in 1..26 : LowerCase[i] = c]]

\* str.lower() on one character
LowerChar(c) == IF c \in DOMAIN UpperToLower THEN UpperToLower[c] ELSE c

\* str.upper() on one character
UpperChar(c) == IF c \in DOMAIN LowerToUpper THEN LowerToUpper[c] ELSE c

RECURSIVE Lower(_)
Lower(s) == IF Len(s) = 0 THEN "" ELSE LowerChar(Char(s, 1)) \o Lower(SubSeq(s, 2, Len(s)))

RECURSIVE Upper(_)
Upper(s) == IF Len(s) = 0 THEN "" ELSE UpperChar(Char(s, 1)) \o Upper(SubSeq(s, 2, Len(s)))

\* the Python expression  sub in s
Contains(s, sub) ==
    \E i \in 1..(Len(s) - Len(sub) + 1) : SubSeq(s, i, i + Len(sub) - 1) = sub

\* str.startswith
StartsWith(s, pre) == Len(s) >= Len(pre) /\ SubSeq(s, 1, Len(pre)) = pre

\* s[..i] ends with [A-Za-z0-9]\s*
RECURSIVE EndsWithLabel(_, _)
EndsWithLabel(s, i) ==
    /\ i >= 1
    /\ \/ Char(s, i) \in Letters \cup Digits
       \/ Char(s, i) \in Whitespace /\ EndsWithLabel(s, i - 1)

\* s[i..] starts with \s*[0-9,.]
RECURSIVE StartsWithNumber(_, _)
StartsWithNumber(s, i) ==
    /\ i <= Len(s)
    /\ \/ Char(s, i) \in Digits \cup {",", "."}
       \/ Char(s, i) \in Whitespace /\ StartsWithNumber(s, i + 1)

\* re.search(r"[A-Za-z0-9]+\s*[=:]\s*[0-9,.]+", s)
MatchesDataPattern(s) ==
    \E j \in 1..Len(s) :
        /\ Char(s, j) \in {"=", ":"}
        /\ EndsWithLabel(s, j - 1)
        /\ StartsWithNumber(s, j + 1)

\* \b after position i of s, position i holding a word character
WordBoundaryAfter(s, i) ==
    i = Len(s) \/ Char(s, i + 1) \notin Letters \cup Digits \cup {"_"}

\* re.search(r'\.(xlsx?|xls)\b', s, re.IGNORECASE)
MatchesFilePattern(s) ==
    \E i \in 1..(Len(s) - 3) :
        /\ Lower(SubSeq(s, i, i + 3)) = ".xls"
        /\ \/ WordBoundaryAfter(s, i + 3)
           \/ /\ i + 4 <= Len(s)
              /\ LowerChar(Char(s, i + 4)) = "x"
              /\ WordBoundaryAfter(s, i + 4)

(***************************************************************************)
(* Generic helpers.                                                        *)
(***************************************************************************)
Last(seq) == seq[Len(seq)]

\* Python truthiness of an optional string: None and "" are falsy
Truthy(x) == x # None /\ x # ""

\* Python  a or b  on optional strings
Or(a, b) == IF Truthy(a) THEN a ELSE b

Range(seq) == {seq[i] : i \in 1..Len(seq)}

\* [msg for msg in msgs if msg["role"] == role]
RECURSIVE SelectRole(_, _)
SelectRole(msgs, role) ==
    IF msgs = <<>> THEN <<>>
    ELSE IF Head(msgs).role = role
         THEN <<Head(msgs)>> \o SelectRole(Tail(msgs), role)
         ELSE SelectRole(Tail(msgs), role)

(***************************************************************************)
(* The preference store (config.py): the settings file, which may not      *)
(* exist yet, and its JSON content.                                        *)
(***************************************************************************)
DEFAULT_SETTINGS ==
    [default_style |-> None, default_format |-> None,
     last_used_style |-> None, last_used_format |-> None]

\* ensure_config_exists that writes DEFAULT_SETTINGS over an existing file
ensure_config_exists_overwrites(file) == [exists |-> TRUE, content |-> DEFAULT_SETTINGS]

ensure_config_exists(file) ==
    IF file.exists THEN file ELSE [exists |-> TRUE, content |-> DEFAULT_SETTINGS]

\* load_user_preferences that answers DEFAULT_SETTINGS whatever the file holds
load_user_preferences_always_defaults(file) == DEFAULT_SETTINGS

\* the settings load_user_preferences() returns; the file it leaves behind
\* is ensure_config_exists(file)
load_user_preferences(file) == ensure_config_exists(file).content

\* save_user_preferences starting from DEFAULT_SETTINGS instead of the file
save_user_preferences_from_scratch(file, default_style, default_format) ==
    LET s1 == IF default_style # None
              THEN [DEFAULT_SETTINGS EXCEPT !.default_style = default_style]
              ELSE DEFAULT_SETTINGS
        s2 == IF default_format # None
              THEN [s1 EXCEPT !.default_format = default_format] ELSE s1
    IN  [exists |-> TRUE, content |-> s2]

\* save_user_preferences that writes its arguments as they are, None included
save_user_preferences_clears_unpassed(file, default_style, default_format) ==
    [exists |-> TRUE,
     content |-> [load_user_preferences(file) EXCEPT !.default_style = default_style,
                                                     !.default_format = default_format]]

save_user_preferences(file, default_style, default_format) ==
    LET settings == load_user_preferences(file)
        s1 == IF default_style # None
              THEN [settings EXCEPT !.default_style = default_style] ELSE settings
        s2 == IF default_format # None
              THEN [s1 EXCEPT !.default_format = default_format] ELSE s1
    IN  [exists |-> TRUE, content |-> s2]

\* update_last_used writing the default_* fields along with the last_used_* ones
update_last_used_sets_defaults(file, style, format) ==
    LET settings == load_user_preferences(file)
        s1 == IF style # None
              THEN [settings EXCEPT !.last_used_style = style, !.default_style = style]
              ELSE settings
        s2 == IF format # None
              THEN [s1 EXCEPT !.last_used_format = format, !.default_format = format]
              ELSE s1
    IN  [exists |-> TRUE, content |-> s2]

update_last_used(file, style, format) ==
    LET settings == load_user_preferences(file)
        s1 == IF style # None
              THEN [settings EXCEPT !.last_used_style = style] ELSE settings
        s2 == IF format # None
              THEN [s1 EXCEPT !.last_used_format = format] ELSE s1
    IN  [exists |-> TRUE, content |-> s2]

(***************************************************************************)
(* GraphState (state.py) and the values of its fields.                     *)
(***************************************************************************)
NoConfigChange == [type |-> None, value |-> None]

NoData == [kind |-> "none", items |-> <<>>]

\* one element of a data list: a {"label": .., "value": ..} object, or a
\* bare JSON scalar (kind "scalar") where an object was expected
Point(label, value) == [kind |-> "point", label |-> label, value |-> value]
Scalar(value) == [kind |-> "scalar", label |-> "", value |-> value]

DataList(items) == [kind |-> "list", items |-> items]
\* a JSON object where the list of points was expected
DataObject == [kind |-> "object", items |-> <<>>]

\* '[{"label": "unknown", "value": 0}]'
SentinelData == DataList(<<Point("unknown", 0)>>)

EmptyChartRequest == [type |-> None, style |-> None, format |-> None]

GraphState(messages, interaction_mode, intent, has_file, config_change, input_data, chart_request, missing_params, output_filename, final_filepath, error_message) ==
    [messages |-> messages, interaction_mode |-> interaction_mode, intent |-> intent,
     has_file |-> has_file, config_change |-> config_change, input_data |-> input_data,
     chart_request |-> chart_request, missing_params |-> missing_params,
     output_filename |-> output_filename, final_filepath |-> final_filepath,
     error_message |-> error_message]

Message(role, content) == [role |-> role, content |-> content]

\* what a node hands back: the state it returns, the settings file it leaves
\* behind and the exception that escaped it ("none" when it returned)
NodeResult(state, file, exc) == [state |-> state, file |-> file, exc |-> exc]

(***************************************************************************)
(* parse_intent.  resp is the classifier's answer: resp.ok is FALSE when   *)
(* json.loads or the attribute access on its result raised.                *)
(***************************************************************************)
\* parse_intent whose except clause always answers off_topic
parse_intent_no_keyword_fallback(state, file, resp) ==
    LET user_message == Last(state.messages).content
        lowered == Lower(user_message)
        intent0 == IF resp.ok THEN Lower(resp.intent) ELSE "off_topic"
        has_file0 == IF resp.ok THEN resp.has_file ELSE MatchesFilePattern(user_message)
        config_type == IF resp.ok THEN resp.config_type ELSE None
        config_value == IF resp.ok THEN resp.config_value ELSE None
        intent1 == IF intent0 \notin {"make_chart", "set_config", "off_topic"}
                   THEN "off_topic" ELSE intent0
        intent == IF intent1 = "off_topic" /\ MatchesDataPattern(user_message)
                  THEN "make_chart" ELSE intent1
        has_file == IF ~has_file0 THEN MatchesFilePattern(user_message) ELSE has_file0
        config_change == IF intent = "set_config" /\ Truthy(config_type) /\ Truthy(config_value)
                         THEN [type |-> config_type, value |-> config_value]
                         ELSE NoConfigChange
    IN  NodeResult([state EXCEPT !.intent = intent, !.has_file = has_file,
                                 !.config_change = config_change],
                   file, "none")

\* parse_intent without the data-pattern fallback
parse_intent_trusts_classifier(state, file, resp) ==
    LET user_message == Last(state.messages).content
        lowered == Lower(user_message)
        intent0 == IF resp.ok THEN Lower(resp.intent)
                   ELSE IF Contains(lowered, "chart") \/ Contains(lowered, "graph")
                        THEN "make_chart" ELSE "off_topic"
        has_file0 == IF resp.ok THEN resp.has_file ELSE MatchesFilePattern(user_message)
        config_type == IF resp.ok THEN resp.config_type ELSE None
        config_value == IF resp.ok THEN resp.config_value ELSE None
        intent1 == IF intent0 \notin {"make_chart", "set_config", "off_topic"}
                   THEN "off_topic" ELSE intent0
        intent == intent1
        has_file == IF ~has_file0 THEN MatchesFilePattern(user_message) ELSE has_file0
        config_change == IF intent = "set_config" /\ Truthy(config_type) /\ Truthy(config_value)
                         THEN [type |-> config_type, value |-> config_value]
                         ELSE NoConfigChange
    IN  NodeResult([state EXCEPT !.intent = intent, !.has_file = has_file,
                                 !.config_change = config_change],
                   file, "none")

\* parse_intent that leaves an earlier config_change in place
parse_intent_keeps_config_change(state, file, resp) ==
    LET user_message == Last(state.messages).content
        lowered == Lower(user_message)
        intent0 == IF resp.ok THEN Lower(resp.intent)
                   ELSE IF Contains(lowered, "chart") \/ Contains(lowered, "graph")
                        THEN "make_chart" ELSE "off_topic"
        has_file0 == IF resp.ok THEN resp.has_file ELSE MatchesFilePattern(user_message)
        config_type == IF resp.ok THEN resp.config_type ELSE None
        config_value == IF resp.ok THEN resp.config_value ELSE None
        intent1 == IF intent0 \notin {"make_chart", "set_config", "off_topic"}
                   THEN "off_topic" ELSE intent0
        intent == IF intent1 = "off_topic" /\ MatchesDataPattern(user_message)
                  THEN "make_chart" ELSE intent1
        has_file == IF ~has_file0 THEN MatchesFilePattern(user_message) ELSE has_file0
        config_change == IF intent = "set_config" /\ Truthy(config_type) /\ Truthy(config_value)
                         THEN [type |-> config_type, value |-> config_value]
                         ELSE state.config_change
    IN  NodeResult([state EXCEPT !.intent = intent, !.has_file = has_file,
                                 !.config_change = config_change],
                   file, "none")

parse_intent(state, file, resp) ==
    LET user_message == Last(state.messages).content
        lowered == Lower(user_message)
        intent0 == IF resp.ok THEN Lower(resp.intent)
                   ELSE IF Contains(lowered, "chart") \/ Contains(lowered, "graph")
                        THEN "make_chart" ELSE "off_topic"
        has_file0 == IF resp.ok THEN resp.has_file ELSE MatchesFilePattern(user_message)
        config_type == IF resp.ok THEN resp.config_type ELSE None
        config_value == IF resp.ok THEN resp.config_value ELSE None
        intent1 == IF intent0 \notin {"make_chart", "set_config", "off_topic"}
                   THEN "off_topic" ELSE intent0
        intent == IF intent1 = "off_topic" /\ MatchesDataPattern(user_message)
                  THEN "make_chart" ELSE intent1
        has_file == IF ~has_file0 THEN MatchesFilePattern(user_message) ELSE has_file0
        config_change == IF intent = "set_config" /\ Truthy(config_type) /\ Truthy(config_value)
                         THEN [type |-> config_type, value |-> config_value]
                         ELSE NoConfigChange
    IN  NodeResult([state EXCEPT !.intent = intent, !.has_file = has_file,
                                 !.config_change = config_change],
                   file, "none")

(***************************************************************************)
(* report_error                                                            *)
(***************************************************************************)
OffTopicText == "I can only help you create charts. Please ask me to make a bar or line chart."
MissingTypeText == "Error: Chart type is ambiguous. Please specify using --type bar or --type line"
MissingStyleText ==
    "Error: Brand style not specified. Please use --style fd or --style bnr, or set a default style."
MissingParamText == "Error: Missing required parameter."
UnableText == "Error: Unable to process request."

report_error_response(state) ==
    LET missing == state.missing_params
    IN  IF state.intent = "off_topic" THEN OffTopicText
        ELSE IF missing # <<>>
        THEN IF Len(missing) = 1
             THEN IF missing[1] = "type" THEN MissingTypeText
                  ELSE IF missing[1] = "style" THEN MissingStyleText
                  ELSE MissingParamText
             ELSE "Error: Missing required parameters:\n"
                  \o (IF "type" \in Range(missing)
                      THEN "  - Chart type: use --type bar or --type line\n" ELSE "")
                  \o (IF "style" \in Range(missing)
                      THEN "  - Brand style: use --style fd or --style bnr" ELSE "")
        ELSE UnableText

\* report_error that hands back an empty chart_request
report_error_resets_request(state, file) ==
    NodeResult([state EXCEPT !.messages = @ \o <<Message("assistant", report_error_response(state))>>,
                             !.chart_request = EmptyChartRequest],
               file, "none")

report_error(state, file) ==
    NodeResult([state EXCEPT !.messages = @ \o <<Message("assistant", report_error_response(state))>>],
               file, "none")

(***************************************************************************)
(* handle_config                                                           *)
(***************************************************************************)
NotUnderstoodText == "I couldn't understand that configuration change."

handle_config(state, file) ==
    LET config_change == state.config_change
        config_type == config_change.type
        config_value == config_change.value
        response == IF config_change = NoConfigChange THEN NotUnderstoodText
                    ELSE IF config_type = "style"
                    THEN "Your default style is now set to " \o Upper(config_value) \o "."
                    ELSE IF config_type = "format"
                    THEN "Your default format is now set to " \o Upper(config_value) \o "."
                    ELSE NotUnderstoodText
        file1 == IF config_change = NoConfigChange THEN file
                 ELSE IF config_type = "style"
                 THEN save_user_preferences(file, config_value, None)
                 ELSE IF config_type = "format"
                 THEN save_user_preferences(file, None, config_value)
                 ELSE file
    IN  NodeResult([state EXCEPT !.messages = @ \o <<Message("assistant", response)>>],
                   file1, "none")

(***************************************************************************)
(* extract_data.  resp is the extractor's answer: resp.ok is FALSE when    *)
(* json.loads or the attribute access on its result raised.                *)
(***************************************************************************)
\* Python truthiness of a JSON value held in the data field
TruthyData(data) == ~(data.kind = "none" \/ (data.kind = "list" /\ data.items = <<>>))

\* the defaults with the last-used value ahead of the stored default
apply_defaults_last_used_first(chart_request, prefs) ==
    [type |-> IF chart_request.type = None THEN "bar" ELSE chart_request.type,
     style |-> IF chart_request.style = None
               THEN Or(prefs.last_used_style, Or(prefs.default_style, "fd"))
               ELSE chart_request.style,
     format |-> IF chart_request.format = None
                THEN Or(prefs.last_used_format, Or(prefs.default_format, "png"))
                ELSE chart_request.format]

\* the defaults extract_data and call_data_tool apply to a merged chart_request
apply_defaults(chart_request, prefs) ==
    [type |-> IF chart_request.type = None THEN "bar" ELSE chart_request.type,
     style |-> IF chart_request.style = None
               THEN Or(prefs.default_style, Or(prefs.last_used_style, "fd"))
               ELSE chart_request.style,
     format |-> IF chart_request.format = None
                THEN Or(prefs.default_format, Or(prefs.last_used_format, "png"))
                ELSE chart_request.format]

\* "only override if extracted parameter is not None" (a truthiness test)
merge_params(chart_request, type, style, format) ==
    [type |-> IF Truthy(type) THEN type ELSE chart_request.type,
     style |-> IF Truthy(style) THEN style ELSE chart_request.style,
     format |-> IF Truthy(format) THEN format ELSE chart_request.format]

\* extract_data without the "if not data" default
extract_data_keeps_empty_data(state, file, resp) ==
    LET input_data == IF resp.ok THEN resp.data ELSE SentinelData
        merged == IF resp.ok
                  THEN merge_params(state.chart_request, resp.type, resp.style, resp.format)
                  ELSE state.chart_request
    IN  NodeResult([state EXCEPT !.input_data = input_data,
                                 !.chart_request =
                                     apply_defaults(merged, load_user_preferences(file))],
                   ensure_config_exists(file), "none")

extract_data(state, file, resp) ==
    LET input_data == IF resp.ok
                      THEN IF TruthyData(resp.data) THEN resp.data ELSE SentinelData
                      ELSE SentinelData
        extracted_type == IF resp.ok THEN resp.type ELSE None
        extracted_style == IF resp.ok THEN resp.style ELSE None
        extracted_format == IF resp.ok THEN resp.format ELSE None
        extracted_filename == IF resp.ok THEN resp.filename ELSE None
        merged == merge_params(state.chart_request, extracted_type, extracted_style,
                               extracted_format)
        prefs == load_user_preferences(file)
        chart_request == apply_defaults(merged, prefs)
        output_filename == IF ~Truthy(state.output_filename) /\ Truthy(extracted_filename)
                           THEN extracted_filename ELSE state.output_filename
    IN  NodeResult([state EXCEPT !.input_data = input_data,
                                 !.chart_request = chart_request,
                                 !.output_filename = output_filename],
                   ensure_config_exists(file), "none")

(***************************************************************************)
(* is_categorical_data and resolve_ambiguity                               *)
(***************************************************************************)
time_keywords ==
    <<"jan", "feb", "mar", "apr", "may", "jun", "jul", "aug", "sep", "oct", "nov", "dec",
      "january", "february", "march", "april", "june", "july", "august", "september",
      "october", "november", "december",
      "q1", "q2", "q3", "q4", "quarter",
      "2020", "2021", "2022", "2023", "2024", "2025", "2026", "2027", "2028", "2029", "2030">>

\* any(keyword in label for keyword in time_keywords), label lower-cased
HasTimeKeyword(label) ==
    \E i \in 1..Len(time_keywords) : Contains(Lower(label), time_keywords[i])

\* the loop over data[:3]: "time" at the first label holding a keyword,
\* "raise" at an element that is not an object (item.get fails), "none" when
\* the loop runs out
RECURSIVE ScanLabels(_, _)
ScanLabels(items, n) ==
    IF n = 0 \/ items = <<>> THEN "none"
    ELSE IF Head(items).kind # "point" THEN "raise"
    ELSE IF HasTimeKeyword(Head(items).label) THEN "time"
    ELSE ScanLabels(Tail(items), n - 1)

\* [value |-> the result, exc |-> the exception that escapes]
is_categorical_data(data_json) ==
    IF data_json.kind = "none" THEN [value |-> TRUE, exc |-> "none"]
    ELSE IF ~TruthyData(data_json) THEN [value |-> TRUE, exc |-> "none"]
    ELSE IF data_json.kind = "object" THEN [value |-> TRUE, exc |-> "TypeError"]
    ELSE LET scan == ScanLabels(data_json.items, 3)
         IN  IF scan = "raise" THEN [value |-> TRUE, exc |-> "AttributeError"]
             ELSE [value |-> scan # "time", exc |-> "none"]

\* "Check chart type": an explicit type is kept; without one, time-series
\* data defaults to line and categorical data leaves the type as it is.
\* cat is the answer of is_categorical_data
resolve_type_wrong_default(chart_req, cat) ==
    IF ~Truthy(chart_req.type)
    THEN IF cat.value THEN chart_req.type ELSE "bar"
    ELSE chart_req.type

resolve_type(chart_req, cat) ==
    IF ~Truthy(chart_req.type)
    THEN IF cat.value THEN chart_req.type ELSE "line"
    ELSE chart_req.type

\* "Check style": explicit, else default_style, else last_used_style, else None
resolve_style_last_used_first(chart_req, prefs) ==
    IF ~Truthy(chart_req.style)
    THEN Or(prefs.last_used_style, Or(prefs.default_style, None))
    ELSE chart_req.style

resolve_style(chart_req, prefs) ==
    IF ~Truthy(chart_req.style)
    THEN Or(prefs.default_style, Or(prefs.last_used_style, None))
    ELSE chart_req.style

\* "Format always has fallback, never missing"
resolve_format(chart_req, prefs) ==
    IF ~Truthy(chart_req.format)
    THEN Or(prefs.default_format, Or(prefs.last_used_format, "png"))
    ELSE chart_req.format

resolve_ambiguity(state, file) ==
    LET prefs == load_user_preferences(file)
        chart_req == state.chart_request
        need_type == ~Truthy(chart_req.type)
        cat == IF need_type THEN is_categorical_data(state.input_data)
               ELSE [value |-> FALSE, exc |-> "none"]
        type == resolve_type(chart_req, cat)
        style == resolve_style(chart_req, prefs)
        format == resolve_format(chart_req, prefs)
        missing == (IF need_type /\ cat.value THEN <<"type">> ELSE <<>>)
                   \o (IF ~Truthy(style) THEN <<"style">> ELSE <<>>)
    IN  IF cat.exc # "none"
        THEN NodeResult(state, ensure_config_exists(file), cat.exc)
        ELSE NodeResult([state EXCEPT !.chart_request =
                                          [type |-> type, style |-> style, format |-> format],
                                      !.missing_params = missing],
                        ensure_config_exists(file), "none")

(***************************************************************************)
(* detect_language and ask_clarification                                   *)
(***************************************************************************)
\* (the keyword with a non-ASCII letter is left out: no message of the
\* model contains it)
dutch_keywords ==
    <<"grafiek", "diagram", "maak", "kan je", "wil", "graag",
      "een", "voor", "met", "van", "het", "de", "lijn", "staaf",
      "genereer", "toon">>

detect_language(text) ==
    IF Cardinality({i \in 1..Len(dutch_keywords) : Contains(Lower(text), dutch_keywords[i])}) >= 2
    THEN "nl" ELSE "en"

clarification_question(language, missing) ==
    IF language = "nl"
    THEN IF "type" \in Range(missing) /\ "style" \in Range(missing)
         THEN "Ik heb je data. Welk type grafiek (staaf/lijn) en welke stijl (FD/BNR)?"
         ELSE IF "type" \in Range(missing)
         THEN "Welk type grafiek wil je: staafdiagram of lijngrafiek?"
         ELSE IF "style" \in Range(missing)
         THEN "Welke stijl wil je gebruiken: FD of BNR?"
         ELSE "Ik heb meer informatie nodig om je grafiek te maken."
    ELSE IF "type" \in Range(missing) /\ "style" \in Range(missing)
         THEN "I have your data. What type of chart (bar/line) and which style (FD/BNR)?"
         ELSE IF "type" \in Range(missing)
         THEN "What type of chart would you like: bar or line?"
         ELSE IF "style" \in Range(missing)
         THEN "Which brand style would you like: FD or BNR?"
         ELSE "I need more information to create your chart."

ask_clarification(state, file) ==
    LET missing == state.missing_params
        user_messages == SelectRole(state.messages, "user")
        language == IF user_messages # <<>>
                    THEN detect_language(Last(user_messages).content) ELSE "en"
    IN  IF missing = <<>> THEN NodeResult(state, file, "none")
        ELSE NodeResult([state EXCEPT !.messages =
                            @ \o <<Message("assistant", clarification_question(language, missing))>>],
                        file, "none")

(***************************************************************************)
(* matplotlib_chart_generator (tools.py) and generate_chart_tool           *)
(***************************************************************************)
BRAND_COLORS == {"fd", "bnr"}

\* the formats plt.savefig can write with the Agg backend, as far as the
\* model's values go
SavefigFormats == {"png", "svg"}

\* an f-string's rendering of an optional string
Str(x) == IF x = None THEN "None" ELSE x

\* the last path component of a file name
RECURSIVE FinalComponent(_)
FinalComponent(name) ==
    IF \E i \in 1..Len(name) : Char(name, i) = "/"
    THEN FinalComponent(SubSeq(name, (CHOOSE i \in 1..Len(name) : Char(name, i) = "/") + 1,
                               Len(name)))
    ELSE name

\* pathlib's Path(name).suffix
PathSuffix(name) ==
    LET comp == FinalComponent(name)
        dots == {i \in 1..Len(comp) : Char(comp, i) = "."}
    IN  IF dots = {} THEN ""
        ELSE LET i == CHOOSE d \in dots : \A e \in dots : e <= d
             IN  IF i > 1 /\ i < Len(comp) THEN SubSeq(comp, i, Len(comp)) ELSE ""

Cwd == "/cwd/"

\* [filepath |-> the path returned, exc |-> the exception that escapes]
matplotlib_chart_generator(data, chart_type, style, format, output_filename, timestamp) ==
    LET named == IF PathSuffix(output_filename) # "" THEN output_filename
                 ELSE output_filename \o "." \o Str(format)
        filepath == IF Truthy(output_filename)
                    THEN IF StartsWith(named, "/") THEN named ELSE Cwd \o named
                    ELSE Cwd \o "chart-" \o timestamp \o "." \o Str(format)
    IN  IF data.kind # "list" THEN [filepath |-> None, exc |-> "TypeError"]
        ELSE IF \E i \in 1..Len(data.items) : data.items[i].kind # "point"
        THEN [filepath |-> None, exc |-> "TypeError"]
        ELSE IF style \notin BRAND_COLORS THEN [filepath |-> None, exc |-> "KeyError"]
        ELSE IF format \notin SavefigFormats THEN [filepath |-> None, exc |-> "ValueError"]
        ELSE [filepath |-> filepath, exc |-> "none"]

\* the arguments generate_chart_tool passes to matplotlib_chart_generator
render_filename(state, logical_name, timestamp) ==
    IF ~Truthy(state.output_filename)
    THEN IF SelectRole(state.messages, "user") # <<>>
         THEN logical_name \o "-" \o timestamp \o "." \o Str(state.chart_request.format)
         ELSE None
    ELSE state.output_filename

\* generate_chart_tool recording the last-used values before it renders
generate_chart_tool_updates_first(state, file, logical_name, timestamp) ==
    LET chart_request == state.chart_request
        made == matplotlib_chart_generator(state.input_data, chart_request.type,
                                           chart_request.style, chart_request.format,
                                           render_filename(state, logical_name, timestamp),
                                           timestamp)
        file1 == update_last_used(file, chart_request.style, chart_request.format)
    IN  IF made.exc # "none" THEN NodeResult(state, file1, made.exc)
        ELSE NodeResult([state EXCEPT !.messages =
                             @ \o <<Message("assistant", "Chart saved: " \o made.filepath)>>,
                                      !.final_filepath = made.filepath],
                        file1, "none")

generate_chart_tool(state, file, logical_name, timestamp) ==
    LET chart_request == state.chart_request
        output_filename == render_filename(state, logical_name, timestamp)
        made == matplotlib_chart_generator(state.input_data, chart_request.type,
                                           chart_request.style, chart_request.format,
                                           output_filename, timestamp)
    IN  IF made.exc # "none" THEN NodeResult(state, file, made.exc)
        ELSE NodeResult([state EXCEPT !.messages =
                             @ \o <<Message("assistant", "Chart saved: " \o made.filepath)>>,
                                      !.final_filepath = made.filepath],
                        update_last_used(file, chart_request.style, chart_request.format),
                        "none")

(***************************************************************************)
(* parse_excel_a1 (tools.py) and call_data_tool.  disk is what the file    *)
(* system holds at the path: [exists, data], data of kind "none" when no   *)
(* sheet has valid data at A1.                                             *)
(***************************************************************************)
NoValidDataText == "Error: No valid data found at cell A1 in any sheet"
BadExtensionText == "Error: File must be .xlsx or .xls format"
NotFoundText(file_path) == "Error: Could not find file '" \o file_path \o "'"

\* [data |-> the JSON returned, error |-> the text of the ValueError raised]
parse_excel_a1(file_path, disk) ==
    IF ~disk.exists THEN [data |-> NoData, error |-> NotFoundText(file_path)]
    ELSE IF Lower(PathSuffix(file_path)) \notin {".xlsx", ".xls"}
    THEN [data |-> NoData, error |-> BadExtensionText]
    ELSE IF disk.data.kind = "none" THEN [data |-> NoData, error |-> NoValidDataText]
    ELSE [data |-> disk.data, error |-> None]

\* file_path is the oracle's answer to the file-path prompt, resp its answer
\* to the parameter prompt
call_data_tool(state, file, file_path, disk, resp) ==
    LET parsed == parse_excel_a1(file_path, disk)
        merged == IF resp.ok
                  THEN merge_params(state.chart_request, resp.type, resp.style, resp.format)
                  ELSE state.chart_request
        prefs == load_user_preferences(file)
    IN  IF Upper(file_path) = "NONE" \/ file_path = ""
        THEN NodeResult([state EXCEPT !.has_file = FALSE], file, "none")
        ELSE IF parsed.error # None
        THEN NodeResult([state EXCEPT !.messages = @ \o <<Message("assistant", parsed.error)>>,
                                      !.error_message = parsed.error],
                        file, "none")
        ELSE NodeResult([state EXCEPT !.has_file = TRUE,
                                      !.input_data = parsed.data,
                                      !.chart_request = apply_defaults(merged, prefs),
                                      !.error_message = None],
                        ensure_config_exists(file), "none")

(***************************************************************************)
(* The routers and the edges of create_graph().                            *)
(***************************************************************************)
route_after_call_data_tool_ignores_error(state) == "resolve_ambiguity"

route_after_call_data_tool_reports(state) ==
    IF Truthy(state.error_message) THEN "report_error" ELSE "resolve_ambiguity"

route_after_call_data_tool(state) ==
    IF Truthy(state.error_message) THEN "END" ELSE "resolve_ambiguity"

route_after_intent_ignores_file(state) ==
    IF state.intent = "off_topic" THEN "report_error"
    ELSE IF state.intent = "set_config" THEN "handle_config"
    ELSE IF state.intent = "make_chart" THEN "extract_data"
    ELSE "report_error"

route_after_intent(state) ==
    IF state.intent = "off_topic" THEN "report_error"
    ELSE IF state.intent = "set_config" THEN "handle_config"
    ELSE IF state.intent = "make_chart"
    THEN IF state.has_file THEN "call_data_tool" ELSE "extract_data"
    ELSE "report_error"

route_after_resolve_always_renders(state) ==
    "generate_chart"

route_after_resolve_ignores_mode(state) ==
    IF state.missing_params # <<>> THEN "ask_clarification" ELSE "generate_chart"

route_after_resolve(state) ==
    IF state.missing_params # <<>>
    THEN IF state.interaction_mode = "conversational" THEN "ask_clarification"
         ELSE "report_error"
    ELSE "generate_chart"

\* the node the graph runs after `node` returned `state`
next_node(node, state) ==
    CASE node = "parse_intent" -> route_after_intent(state)
      [] node = "call_data_tool" -> route_after_call_data_tool(state)
      [] node = "extract_data" -> "resolve_ambiguity"
      [] node = "resolve_ambiguity" -> route_after_resolve(state)
      [] node \in {"report_error", "handle_config", "ask_clarification", "generate_chart"}
           -> "END"

(***************************************************************************)
(* Bounds: the inputs the model draws from.                                *)
(***************************************************************************)
\* the longest data list an oracle answer or a spreadsheet holds
MaxPoints == 3

UserMessages ==
    {"A=10, B=20", "chart from sales.xlsx", "set my default style to BNR",
     "make me a sandwich", "create a bar chart"}

TimeSeriesData == DataList(<<Point("Jan", 100), Point("Feb", 120), Point("Mar", 110)>>)
CategoricalData == DataList(<<Point("Apple", 10), Point("Banana", 20)>>)
ScalarData == DataList(<<Scalar(1), Scalar(2)>>)
\* well-formed lists that are no use as a chart: one point, values all
\* zero, a label of blanks only
SinglePointData == DataList(<<Point("A", 10)>>)
ZeroData == DataList(<<Point("A", 0), Point("B", 0)>>)
BlankLabelData == DataList(<<Point(" ", 10), Point("B", 20)>>)

BoundedData(d) == Len(d.items) <= MaxPoints

\* the "data" member of an extractor answer
ExtractedData ==
    {d \in {TimeSeriesData, CategoricalData, DataList(<<>>), ScalarData, DataObject,
            SinglePointData, ZeroData, BlankLabelData} :
        BoundedData(d)}

\* what a spreadsheet on disk parses to
SheetData == {d \in {TimeSeriesData, CategoricalData} : BoundedData(d)}

\* the parameter members of an oracle answer: null, a valid value other
\* than the code's fallback (bar, fd, png), and a value outside the enum
TypeAnswers == {None, "line", "pie"}
StyleAnswers == {None, "bnr", "neon"}
FormatAnswers == {None, "svg", "gif"}
FilenameAnswers == {None, "results.png"}

NoAnswer ==
    [ok |-> FALSE, intent |-> None, has_file |-> FALSE, config_type |-> None,
     config_value |-> None]

ConfigAnswers ==
    {<<None, None>>, <<"style", "bnr">>, <<"format", "svg">>, <<"style", "neon">>,
     <<"theme", "dark">>, <<"style", None>>}

ClassifierAnswers ==
    {NoAnswer} \cup
    {[ok |-> TRUE, intent |-> i, has_file |-> f, config_type |-> c[1], config_value |-> c[2]] :
        i \in {"make_chart", "set_config", "off_topic", "smalltalk"},
        f \in BOOLEAN, c \in ConfigAnswers}

NoExtraction ==
    [ok |-> FALSE, data |-> NoData, type |-> None, style |-> None, format |-> None,
     filename |-> None]

ExtractorAnswers ==
    {NoExtraction} \cup
    {[ok |-> TRUE, data |-> d, type |-> t, style |-> s, format |-> f, filename |-> n] :
        d \in ExtractedData, t \in TypeAnswers, s \in StyleAnswers, f \in FormatAnswers,
        n \in FilenameAnswers}

\* answers to the parameter prompt of call_data_tool
ParamAnswers ==
    {NoExtraction} \cup
    {[ok |-> TRUE, data |-> NoData, type |-> t, style |-> s, format |-> f, filename |-> None] :
        t \in TypeAnswers, s \in StyleAnswers, f \in FormatAnswers}

FilePathAnswers == {"NONE", "sales.xlsx", "notes.txt"}

NoDisk == [exists |-> FALSE, data |-> NoData]

Disks ==
    {NoDisk, [exists |-> TRUE, data |-> NoData]}
    \cup {[exists |-> TRUE, data |-> d] : d \in SheetData}

LogicalNames == {"chart", "sales"}
Timestamps == {"20251106143000"}

\* the settings files a run may find: none, or one written by earlier runs.
\* Every field holds its own value, so that the source of a resolved
\* parameter shows in its value.
StoredSettings ==
    [default_style : {None, "fd"}, default_format : {None, "svg"},
     last_used_style : {None, "bnr"}, last_used_format : {None}]

SettingsFiles ==
    {[exists |-> FALSE, content |-> DEFAULT_SETTINGS]}
    \cup {[exists |-> TRUE, content |-> c] : c \in StoredSettings}

\* the command-line options of main(): None when the option is not given
TypeFlags == {None, "line"}
StyleFlags == {None, "bnr"}
FormatFlags == {None, "svg"}
OutputFileFlags == {None, "out"}

(***************************************************************************)
(* The program: cli.py around the compiled graph.                          *)
(***************************************************************************)
VARIABLES
    state,          \* the GraphState of the session
    settings_file,  \* ~/.config/graph-agent/settings.json
    pc,             \* "cli", the node about to run, "END" or "raised"
    exc,            \* the exception that ended the invocation, or "none"
    executed,       \* the nodes run in the current invocation, in order
    state0,         \* the GraphState graph.invoke() was called with
    file0,          \* the settings file at that moment
    request,        \* the parameters the request itself gave (flags, oracle)
    parser_failure, \* the text of the ValueError parse_excel_a1 raised, or None
    extraction,     \* how extract_data found the extractor's answer, or None
    verdict,        \* the intent the classifier answered, "unparseable", or None
    turn,           \* the number of graph.invoke() calls made so far
    rendered,       \* the arguments of the matplotlib_chart_generator call
    calls,          \* the functions a caller ran on their own, in order: arguments, result
    procs           \* the processes sharing the settings file: position and locals

vars == <<state, settings_file, pc, exc, executed, state0, file0, request,
          parser_failure, extraction, verdict, turn, rendered, calls, procs>>


\* what a request gave by itself: the parameters and the output filename
Requested(chart_request, filename) ==
    [type |-> chart_request.type, style |-> chart_request.style,
     format |-> chart_request.format, filename |-> filename]

\* a request and what an oracle answer adds to it: the parameters as
\* merge_params takes them, the filename unless one was given already
merge_request(req, resp) ==
    IF ~resp.ok THEN req
    ELSE Requested(merge_params(req, resp.type, resp.style, resp.format),
                   IF ~Truthy(req.filename) /\ Truthy(resp.filename)
                   THEN resp.filename ELSE req.filename)

NotRendered ==
    [called |-> FALSE, data |-> NoData, type |-> None, style |-> None, format |-> None,
     filename |-> None]

\* session_state as run_conversational_mode() builds it; for direct mode the
\* record main() holds before run_direct_mode() builds initial_state
InitialState(mode) ==
    GraphState(<<>>, mode, "unknown", FALSE, NoConfigChange, NoData, EmptyChartRequest,
               <<>>, None, None, None)

Init ==
    /\ \E mode \in {"direct", "conversational"} : state = InitialState(mode)
    /\ settings_file \in SettingsFiles
    /\ pc = "cli"
    /\ exc = "none"
    /\ executed = <<>>
    /\ state0 = state
    /\ file0 = settings_file
    /\ request = Requested(EmptyChartRequest, None)
    /\ parser_failure = None
    /\ extraction = None
    /\ verdict = None
    /\ turn = 0
    /\ rendered = NotRendered
    /\ calls = <<>>
    /\ procs = <<>>

\* graph.invoke(s): the graph starts at its entry point
Invoke(s, given) ==
    /\ state' = s
    /\ state0' = s
    /\ file0' = settings_file
    /\ pc' = "parse_intent"
    /\ executed' = <<>>
    /\ request' = given
    /\ parser_failure' = None
    /\ extraction' = None
    /\ verdict' = None
    /\ turn' = turn + 1
    /\ rendered' = NotRendered
    /\ UNCHANGED <<settings_file, exc, calls, procs>>

\* the click defaults of main() and run_direct_mode()
run_direct_mode_state(prompt, style, format, chart_type, output_file) ==
    GraphState(<<Message("user", prompt)>>, "direct", "unknown", FALSE, NoConfigChange,
               NoData,
               [type |-> IF chart_type = None THEN "bar" ELSE chart_type,
                style |-> IF style = None THEN "fd" ELSE style,
                format |-> IF format = None THEN "png" ELSE format],
               <<>>, output_file, None, None)

\* the exit status run_direct_mode() ends the process with, from the state
\* graph.invoke() returned
run_direct_mode_exit_code_always_zero(result) == 0

run_direct_mode_exit_code(result) ==
    LET assistant_message == Last(result.messages).content
    IN  IF StartsWith(assistant_message, "Error:") \/ StartsWith(assistant_message, "I can only")
        THEN 1 ELSE 0

\* main() with a prompt, the prompt and the options drawn from the given sets
RunDirectModeFrom(prompts, styles, formats, types, output_files) ==
    /\ pc = "cli"
    /\ state.interaction_mode = "direct"
    /\ \E prompt \in prompts, style \in styles, format \in formats,
          chart_type \in types, output_file \in output_files :
          Invoke(run_direct_mode_state(prompt, style, format, chart_type, output_file),
                 Requested([type |-> chart_type, style |-> style, format |-> format],
                           output_file))

RunDirectMode ==
    RunDirectModeFrom(UserMessages, StyleFlags, FormatFlags, TypeFlags, OutputFileFlags)

conversational_turn_state_fresh_messages(session_state, user_input) ==
    [session_state EXCEPT !.messages = <<Message("user", user_input)>>]

\* one pass of the REPL loop up to graph.invoke()
conversational_turn_state(session_state, user_input) ==
    [session_state EXCEPT !.messages = @ \o <<Message("user", user_input)>>]

\* the REPL reads a line at the prompt: before the first turn (pc = "cli")
\* or after graph.invoke() returned and the answer was printed (pc = "END")
ConversationalTurnFrom(prompts, user_inputs) ==
    /\ pc \in prompts
    /\ state.interaction_mode = "conversational"
    /\ \E user_input \in user_inputs :
          Invoke(conversational_turn_state(state, user_input), Requested(EmptyChartRequest, None))

ConversationalTurn == ConversationalTurnFrom({"cli"}, UserMessages)

\* a node returned r (or raised r.exc): the graph follows the edge
Step(node, r) ==
    /\ state' = r.state
    /\ settings_file' = r.file
    /\ executed' = Append(executed, node)
    /\ exc' = r.exc
    /\ pc' = IF r.exc # "none" THEN "raised" ELSE next_node(node, r.state)
    /\ UNCHANGED <<state0, file0, turn, calls, procs>>

\* what the classifier answered: the except clause of parse_intent, or the
\* intent member as parse_intent reads it
classifier_verdict(resp) == IF ~resp.ok THEN "unparseable" ELSE Lower(resp.intent)

ParseIntentFrom(answers) ==
    /\ pc = "parse_intent"
    /\ \E resp \in answers :
          /\ Step("parse_intent", parse_intent(state, settings_file, resp))
          /\ verdict' = classifier_verdict(resp)
    /\ UNCHANGED <<request, parser_failure, extraction, rendered>>

ParseIntent == ParseIntentFrom(ClassifierAnswers)

ReportError ==
    /\ pc = "report_error"
    /\ Step("report_error", report_error(state, settings_file))
    /\ UNCHANGED <<request, parser_failure, extraction, verdict, rendered>>

HandleConfig ==
    /\ pc = "handle_config"
    /\ Step("handle_config", handle_config(state, settings_file))
    /\ UNCHANGED <<request, parser_failure, extraction, verdict, rendered>>

\* which branch of extract_data's parsing an answer takes: the except
\* clause, the "if not data" default, or the data as answered
extraction_kind(resp) ==
    IF ~resp.ok THEN "unparseable"
    ELSE IF ~TruthyData(resp.data) THEN "no data"
    ELSE "data"

ExtractDataFrom(answers) ==
    /\ pc = "extract_data"
    /\ \E resp \in answers :
          /\ Step("extract_data", extract_data(state, settings_file, resp))
          /\ request' = merge_request(request, resp)
          /\ extraction' = extraction_kind(resp)
    /\ UNCHANGED <<parser_failure, verdict, rendered>>

ExtractData == ExtractDataFrom(ExtractorAnswers)

\* the file-path prompt is always asked; the file is read only when a path
\* came back, and the parameter prompt is asked only after a successful read
CallDataToolFrom(file_paths, disks, answers) ==
    /\ pc = "call_data_tool"
    /\ \E file_path \in file_paths :
          IF Upper(file_path) = "NONE" \/ file_path = ""
          THEN /\ Step("call_data_tool",
                       call_data_tool(state, settings_file, file_path, NoDisk, NoExtraction))
               /\ UNCHANGED <<request, parser_failure>>
          ELSE \E disk \in disks :
               IF parse_excel_a1(file_path, disk).error # None
               THEN /\ Step("call_data_tool",
                            call_data_tool(state, settings_file, file_path, disk, NoExtraction))
                    /\ parser_failure' = parse_excel_a1(file_path, disk).error
                    /\ UNCHANGED request
               ELSE \E resp \in answers :
                    /\ Step("call_data_tool",
                            call_data_tool(state, settings_file, file_path, disk, resp))
                    /\ request' = merge_request(request, [resp EXCEPT !.filename = None])
                    /\ UNCHANGED parser_failure
    /\ UNCHANGED <<extraction, verdict, rendered>>

CallDataTool == CallDataToolFrom(FilePathAnswers, Disks, ParamAnswers)

ResolveAmbiguity ==
    /\ pc = "resolve_ambiguity"
    /\ Step("resolve_ambiguity", resolve_ambiguity(state, settings_file))
    /\ UNCHANGED <<request, parser_failure, extraction, verdict, rendered>>

AskClarification ==
    /\ pc = "ask_clarification"
    /\ Step("ask_clarification", ask_clarification(state, settings_file))
    /\ UNCHANGED <<request, parser_failure, extraction, verdict, rendered>>

GenerateChartFrom(logical_names, timestamps) ==
    /\ pc = "generate_chart"
    /\ \E logical_name \in logical_names, timestamp \in timestamps :
          /\ Step("generate_chart",
                  generate_chart_tool(state, settings_file, logical_name, timestamp))
          /\ rendered' = [called |-> TRUE, data |-> state.input_data,
                          type |-> state.chart_request.type,
                          style |-> state.chart_request.style,
                          format |-> state.chart_request.format,
                          filename |-> render_filename(state, logical_name, timestamp)]
    /\ UNCHANGED <<request, parser_failure, extraction, verdict>>

GenerateChart == GenerateChartFrom(LogicalNames, Timestamps)

Next ==
    \/ RunDirectMode
    \/ ConversationalTurn
    \/ ParseIntent
    \/ ReportError
    \/ HandleConfig
    \/ ExtractData
    \/ CallDataTool
    \/ ResolveAmbiguity
    \/ AskClarification
    \/ GenerateChart

Spec == Init /\ [][Next]_vars

(***************************************************************************)
(* A session: the turns of one REPL, and the processes started one after   *)
(* the other on the same settings file, each turn drawing its inputs from  *)
(* small sets.                                                             *)
(***************************************************************************)
\* the graph.invoke() calls a session makes at most
MaxTurns == 3

SessionMessages == {"A=10, B=20", "chart from sales.xlsx", "set my default style to BNR"}

SessionClassifierAnswers ==
    {[ok |-> TRUE, intent |-> "make_chart", has_file |-> FALSE, config_type |-> None,
      config_value |-> None],
     [ok |-> TRUE, intent |-> "set_config", has_file |-> FALSE, config_type |-> "style",
      config_value |-> "bnr"],
     [ok |-> TRUE, intent |-> "off_topic", has_file |-> FALSE, config_type |-> None,
      config_value |-> None]}

SessionExtractorAnswers ==
    {NoExtraction,
     [ok |-> TRUE, data |-> CategoricalData, type |-> None, style |-> None, format |-> None,
      filename |-> None],
     [ok |-> TRUE, data |-> CategoricalData, type |-> None, style |-> "fd", format |-> None,
      filename |-> None],
     [ok |-> TRUE, data |-> CategoricalData, type |-> None, style |-> "fd", format |-> None,
      filename |-> "results.png"]}

SessionFilePathAnswers == {"NONE", "sales.xlsx"}

SessionDisks == {NoDisk, [exists |-> TRUE, data |-> CategoricalData]}

\* main() starts: a process with no file in ~/.config/graph-agent yet
SessionInit ==
    /\ \E mode \in {"direct", "conversational"} : state = InitialState(mode)
    /\ settings_file = [exists |-> FALSE, content |-> DEFAULT_SETTINGS]
    /\ pc = "cli"
    /\ exc = "none"
    /\ executed = <<>>
    /\ state0 = state
    /\ file0 = settings_file
    /\ request = Requested(EmptyChartRequest, None)
    /\ parser_failure = None
    /\ extraction = None
    /\ verdict = None
    /\ turn = 0
    /\ rendered = NotRendered
    /\ calls = <<>>
    /\ procs = <<>>

\* the process has ended (sys.exit, "exit" at the prompt, or an exception
\* that left main()) and main() is started again: the settings file is all
\* that is left of the earlier process
StartProcess ==
    /\ pc \in {"END", "raised"}
    /\ turn < MaxTurns
    /\ \E mode \in {"direct", "conversational"} :
          /\ state' = InitialState(mode)
          /\ state0' = InitialState(mode)
    /\ file0' = settings_file
    /\ pc' = "cli"
    /\ exc' = "none"
    /\ executed' = <<>>
    /\ request' = Requested(EmptyChartRequest, None)
    /\ parser_failure' = None
    /\ extraction' = None
    /\ verdict' = None
    /\ rendered' = NotRendered
    /\ UNCHANGED <<settings_file, turn, calls, procs>>

SessionRunDirectMode ==
    /\ turn < MaxTurns
    /\ RunDirectModeFrom(SessionMessages, {None}, {None}, {None}, {None})

SessionConversationalTurn ==
    /\ turn < MaxTurns
    /\ ConversationalTurnFrom({"cli", "END"}, SessionMessages)

SessionParseIntent == ParseIntentFrom(SessionClassifierAnswers)

SessionExtractData == ExtractDataFrom(SessionExtractorAnswers)

SessionCallDataTool == CallDataToolFrom(SessionFilePathAnswers, SessionDisks, {NoExtraction})

SessionGenerateChart == GenerateChartFrom({"chart"}, Timestamps)

SessionNext ==
    \/ StartProcess
    \/ SessionRunDirectMode
    \/ SessionConversationalTurn
    \/ SessionParseIntent
    \/ ReportError
    \/ HandleConfig
    \/ SessionExtractData
    \/ SessionCallDataTool
    \/ ResolveAmbiguity
    \/ AskClarification
    \/ SessionGenerateChart

SessionSpec == SessionInit /\ [][SessionNext]_vars

(***************************************************************************)
(* The nodes and routers called on their own, as the unit tests call them: *)
(* one call of one function on a GraphState built by the caller.           *)
(***************************************************************************)
MixedData ==
    DataList(<<Point("Apple", 10), Point("Banana", 20), Point("Cherry", 30), Point("Jan", 5)>>)

\* labels that are no dates but hold the letters of a month abbreviation
DepartmentData ==
    DataList(<<Point("Marketing", 40), Point("Sales", 25), Point("Support", 35)>>)

\* a quarter in capitals among the first three labels
UpperQuarterData ==
    DataList(<<Point("Widgets", 7), Point("Q3 TOTAL", 9)>>)

NodeData ==
    {d \in {NoData, TimeSeriesData, CategoricalData, SentinelData, ScalarData, DataObject,
            MixedData, DepartmentData, UpperQuarterData} : Len(d.items) <= MaxPoints + 1}

NodeChartRequests ==
    [type : {None, "bar", "line", "pie"}, style : {None, "fd", "bnr", "neon"},
     format : {None, "png", "svg", "gif"}]

NodeSettingsFiles ==
    {[exists |-> FALSE, content |-> DEFAULT_SETTINGS]}
    \cup {[exists |-> TRUE, content |-> c] :
            c \in [default_style : {None, "fd", "bnr"}, default_format : {None, "svg"},
                   last_used_style : {None, "fd", "bnr"}, last_used_format : {None, "png"}]}

NodeMissing == {<<>>, <<"type">>, <<"style">>, <<"type", "style">>, <<"format">>}

NodeIntents == {"make_chart", "set_config", "off_topic", "unknown", "smalltalk"}

\* a state handed to a router
RouterState(mode, intent, has_file, missing) ==
    GraphState(<<Message("user", "A=10, B=20")>>, mode, intent, has_file, NoConfigChange,
               NoData, EmptyChartRequest, missing, None, None, None)

\* a state handed to resolve_ambiguity
ResolverState(mode, data, chart_request) ==
    GraphState(<<Message("user", "A=10, B=20")>>, mode, "make_chart", FALSE, NoConfigChange,
               data, chart_request, <<>>, None, None, None)

\* answers of the extractor to a caller of extract_data: each parameter
\* null, an empty string or a value
NodeExtractorAnswers ==
    {NoExtraction} \cup
    {[ok |-> TRUE, data |-> CategoricalData, type |-> t, style |-> s, format |-> f,
      filename |-> None] :
        t \in {None, "", "line"}, s \in {None, "", "bnr"}, f \in {None, "", "svg"}}

NodeInit ==
    /\ \/ /\ \E mode \in {"direct", "conversational"}, intent \in NodeIntents,
                has_file \in BOOLEAN, missing \in NodeMissing :
                state = RouterState(mode, intent, has_file, missing)
          /\ settings_file = [exists |-> FALSE, content |-> DEFAULT_SETTINGS]
       \/ /\ \E mode \in {"direct", "conversational"}, data \in NodeData,
                chart_request \in NodeChartRequests :
                state = ResolverState(mode, data, chart_request)
          /\ settings_file \in NodeSettingsFiles
    /\ pc = "call"
    /\ exc = "none"
    /\ executed = <<>>
    /\ state0 = state
    /\ file0 = settings_file
    /\ request = Requested(state.chart_request, None)
    /\ parser_failure = None
    /\ extraction = None
    /\ verdict = None
    /\ turn = 0
    /\ rendered = NotRendered
    /\ calls = <<>>
    /\ procs = <<>>

\* route_after_intent(state): pc takes the name it returns
CallRouteAfterIntent ==
    /\ pc = "call"
    /\ pc' = next_node("parse_intent", state)
    /\ executed' = <<"route_after_intent">>
    /\ UNCHANGED <<state, settings_file, exc, state0, file0, request, parser_failure, extraction,
                 verdict, turn, rendered, calls, procs>>

\* route_after_resolve(state): pc takes the name it returns
CallRouteAfterResolve ==
    /\ pc = "call"
    /\ pc' = next_node("resolve_ambiguity", state)
    /\ executed' = <<"route_after_resolve">>
    /\ UNCHANGED <<state, settings_file, exc, state0, file0, request, parser_failure, extraction,
                 verdict, turn, rendered, calls, procs>>

\* resolve_ambiguity(state): state takes the GraphState it returns
CallResolveAmbiguity ==
    /\ pc = "call"
    /\ \E r \in {resolve_ambiguity(state, settings_file)} :
          /\ state' = r.state
          /\ settings_file' = r.file
          /\ exc' = r.exc
          /\ pc' = IF r.exc # "none" THEN "raised" ELSE "returned"
    /\ executed' = <<"resolve_ambiguity">>
    /\ UNCHANGED <<state0, file0, request, parser_failure, extraction, verdict, turn,
                 rendered, calls, procs>>

\* extract_data(state) with the extractor answering resp
CallExtractData ==
    /\ pc = "call"
    /\ \E resp \in NodeExtractorAnswers :
       \E r \in {extract_data(state, settings_file, resp)} :
          /\ state' = r.state
          /\ settings_file' = r.file
          /\ exc' = r.exc
          /\ pc' = IF r.exc # "none" THEN "raised" ELSE "returned"
          /\ calls' = <<[op |-> "extract_data", resp |-> resp]>>
    /\ executed' = <<"extract_data">>
    /\ UNCHANGED <<state0, file0, request, parser_failure, extraction, verdict, turn,
                   rendered, procs>>

\* is_categorical_data(state["input_data"])
CallIsCategoricalData ==
    /\ pc = "call"
    /\ \E r \in {is_categorical_data(state.input_data)} :
          /\ exc' = r.exc
          /\ pc' = IF r.exc # "none" THEN "raised" ELSE "returned"
          /\ calls' = <<[op |-> "is_categorical_data", returned |-> r.value]>>
    /\ executed' = <<"is_categorical_data">>
    /\ UNCHANGED <<state, settings_file, state0, file0, request, parser_failure, extraction,
                   verdict, turn, rendered, procs>>

NodeNext ==
    \/ CallRouteAfterIntent
    \/ CallRouteAfterResolve
    \/ CallResolveAmbiguity
    \/ CallExtractData
    \/ CallIsCategoricalData

NodeSpec == NodeInit /\ [][NodeNext]_vars

(***************************************************************************)
(* Properties.                                                             *)
(***************************************************************************)
NoDuplicates(seq) == \A i, j \in 1..Len(seq) : i # j => seq[i] # seq[j]

\* the longest path of create_graph(): entry, data node, resolver, terminal node
MaxNodeExecutions == 4

\* the settings a node of the current invocation found when it started
Stored0 == load_user_preferences(file0)

\* C1: every invocation started at parse_intent reaches END after a bounded
\* number of node executions, whatever the message, the mode, the stored
\* preferences and the oracle answers, and no node runs twice: the invocation
\* never stops anywhere but at END.
C1_EveryInvocationReachesEnd ==
    /\ pc # "raised"
    /\ Len(executed) <= MaxNodeExecutions
    /\ NoDuplicates(executed)

\* C2: the node after classify depends on intent and has_file alone:
\* off_topic -> report_error, set_config -> handle_config, make_chart with a
\* file -> call_data_tool, make_chart without -> extract_data, any other
\* intent -> report_error.
C2_RouteAfterIntent ==
    executed = <<"route_after_intent">> =>
        pc = CASE state.intent = "off_topic" -> "report_error"
               [] state.intent = "set_config" -> "handle_config"
               [] state.intent = "make_chart" /\ state.has_file -> "call_data_tool"
               [] state.intent = "make_chart" /\ ~state.has_file -> "extract_data"
               [] OTHER -> "report_error"

C2_Witness ==
    /\ executed = <<"route_after_intent">>
    /\ state.intent = "make_chart"
    /\ state.has_file
    /\ pc = "call_data_tool"

\* the node the claimed table of C3 names for a state
C3_Table(s) ==
    IF s.missing_params # <<>>
    THEN IF s.interaction_mode = "conversational" THEN "ask_clarification"
         ELSE IF s.interaction_mode = "direct" THEN "report_error" ELSE "?"
    ELSE "generate_chart"

\* C3: after resolve_ambiguity, a state with missing parameters goes to
\* ask_clarification in conversational mode and to report_error in direct
\* mode, the same state in the other mode goes to the other of the two, and a
\* state without missing parameters goes to generate_chart in both modes.
C3_RouteAfterResolve ==
    executed = <<"route_after_resolve">> =>
        /\ pc = C3_Table(state)
        /\ \A mode \in {"direct", "conversational"} :
              route_after_resolve([state EXCEPT !.interaction_mode = mode])
                  = C3_Table([state EXCEPT !.interaction_mode = mode])

C3_Witness ==
    /\ executed = <<"route_after_resolve">>
    /\ state.missing_params = <<"style">>
    /\ state.interaction_mode = "direct"
    /\ pc = "report_error"

\* C4: when parse_excel_a1 fails in call_data_tool, the invocation ends with
\* error_message equal to the parser's text, final_filepath absent, exactly
\* one assistant message appended, whose text is the parser's text, and
\* without resolve_ambiguity or generate_chart having run, in either mode.
C4_FileParserFailure ==
    parser_failure # None =>
        /\ pc = "END"
        /\ state.error_message = parser_failure
        /\ state.final_filepath = None
        /\ state.messages = state0.messages \o <<Message("assistant", parser_failure)>>
        /\ "resolve_ambiguity" \notin Range(executed)
        /\ "generate_chart" \notin Range(executed)
        /\ ~rendered.called

C4_Witness ==
    /\ parser_failure = NotFoundText("sales.xlsx")
    /\ state.interaction_mode = "direct"
    /\ executed = <<"parse_intent", "call_data_tool">>
    /\ pc = "END"
    /\ state.error_message = parser_failure

\* C5 as claimed: when parse_excel_a1 fails, the workflow goes from
\* call_data_tool to report_error before it reaches END.
C5_ReportErrorAfterFailure ==
    (parser_failure # None /\ pc = "END") => "report_error" \in Range(executed)

\* C5, amended: when parse_excel_a1 fails, the workflow goes from
\* call_data_tool straight to END with error_message set; report_error does
\* not run.
C5_EndAfterFailure ==
    parser_failure # None =>
        /\ Last(executed) = "call_data_tool"
        /\ pc = "END"
        /\ Truthy(state.error_message)
        /\ "report_error" \notin Range(executed)

C5_Witness ==
    /\ parser_failure = NoValidDataText
    /\ state.interaction_mode = "conversational"
    /\ Last(executed) = "call_data_tool"
    /\ pc = "END"

\* C6: in every state resolve_ambiguity returns, chart_request.format is png
\* or svg and "format" is not in missing_params.
C6_FormatAlwaysResolves ==
    (executed # <<>> /\ Last(executed) = "resolve_ambiguity" /\ exc = "none") =>
        /\ state.chart_request.format \in {"png", "svg"}
        /\ "format" \notin Range(state.missing_params)

\* the style the chain of C7 names for a request and a store
C7_Chain(explicit, stored) ==
    IF Truthy(explicit) THEN explicit
    ELSE IF Truthy(stored.default_style) THEN stored.default_style
    ELSE IF Truthy(stored.last_used_style) THEN stored.last_used_style
    ELSE None

\* C7: resolve_ambiguity keeps an explicit style, else takes default_style,
\* else last_used_style; with none of the three the style stays absent and
\* "style" is in missing_params (and only then).
C7_StylePriorityChain ==
    (executed = <<"resolve_ambiguity">> /\ pc = "returned") =>
        /\ state.chart_request.style = C7_Chain(state0.chart_request.style, Stored0)
        /\ ("style" \in Range(state.missing_params))
              <=> (C7_Chain(state0.chart_request.style, Stored0) = None)

C7_Witness ==
    /\ executed = <<"resolve_ambiguity">>
    /\ pc = "returned"
    /\ state0.chart_request.style = None
    /\ Stored0.default_style = "fd"
    /\ Stored0.last_used_style = "bnr"
    /\ state.chart_request.style = "fd"

\* the request of the current invocation names no style and the store held none
NoStyleAnywhere ==
    /\ request.style = None
    /\ ~Truthy(Stored0.default_style)
    /\ ~Truthy(Stored0.last_used_style)

\* C8: in a make_chart invocation whose request gives no style, with neither
\* default_style nor last_used_style stored, generate_chart never runs and
\* the invocation ends in ask_clarification (conversational) or report_error
\* (direct) with "style" in missing_params.
C8_NoSilentStyle ==
    (/\ state.intent = "make_chart"
     /\ "parse_intent" \in Range(executed)
     /\ NoStyleAnywhere
     /\ parser_failure = None) =>
        /\ pc # "generate_chart"
        /\ "generate_chart" \notin Range(executed)
        /\ pc = "END" =>
              /\ "style" \in Range(state.missing_params)
              /\ Last(executed) = IF state.interaction_mode = "conversational"
                                  THEN "ask_clarification" ELSE "report_error"

\* C9: without an explicit type, resolve_ambiguity sets type to line and does
\* not list "type" as missing when the data is time-series (Jan, Feb, Mar),
\* and leaves type absent and lists "type" when the data is categorical
\* (Apple, Banana); an explicit type is kept.
C9_TypeFromDataShape ==
    (executed = <<"resolve_ambiguity">> /\ pc = "returned") =>
        LET explicit == state0.chart_request.type
            timeSeries == \/ state0.input_data = TimeSeriesData
                          \/ ~is_categorical_data(state0.input_data).value
            categorical == \/ state0.input_data = CategoricalData
                           \/ is_categorical_data(state0.input_data).value
        IN  /\ Truthy(explicit) =>
                 /\ state.chart_request.type = explicit
                 /\ "type" \notin Range(state.missing_params)
            /\ (~Truthy(explicit) /\ timeSeries) =>
                 /\ state.chart_request.type = "line"
                 /\ "type" \notin Range(state.missing_params)
            /\ (~Truthy(explicit) /\ categorical) =>
                 /\ state.chart_request.type = None
                 /\ "type" \in Range(state.missing_params)

C9_Witness ==
    /\ executed = <<"resolve_ambiguity">>
    /\ pc = "returned"
    /\ state0.chart_request.type = None
    /\ state0.input_data = TimeSeriesData
    /\ state.chart_request.type = "line"
    /\ state.missing_params = <<>>

\* C10: a conversational invocation on a text request whose extracted labels
\* are Jan, Feb, Mar, that names no type, style or format, run with
\* default_style fd and no format stored, calls the renderer with type line,
\* style fd and format png and ends with a message holding the saved path.
C10_TimeSeriesRendersLine ==
    (/\ pc = "END"
     /\ state.interaction_mode = "conversational"
     /\ "extract_data" \in Range(executed)
     /\ state.input_data = TimeSeriesData
     /\ Requested(request, None) = Requested(EmptyChartRequest, None)
     /\ Stored0.default_style = "fd"
     /\ ~Truthy(Stored0.default_format)
     /\ ~Truthy(Stored0.last_used_format)) =>
        /\ rendered.called
        /\ rendered.type = "line"
        /\ rendered.style = "fd"
        /\ rendered.format = "png"
        /\ Last(state.messages) = Message("assistant", "Chart saved: " \o state.final_filepath)

\* the turn is a conversational text request whose data came out categorical,
\* that named no chart type, run with a default style stored
CategoricalNoType ==
    /\ state.interaction_mode = "conversational"
    /\ "extract_data" \in Range(executed)
    /\ state.input_data = CategoricalData
    /\ request.type = None
    /\ Truthy(Stored0.default_style)

\* C11: a conversational text request with categorical data and no chart type
\* named, run with a default style stored, ends the turn in ask_clarification
\* with the question asking for the chart type (bar or line), and no chart is
\* rendered in that turn.
C11_AsksForType ==
    (pc \in {"END", "raised"} /\ CategoricalNoType) =>
        /\ pc = "END"
        /\ Last(executed) = "ask_clarification"
        /\ state.missing_params = <<"type">>
        /\ Last(state.messages) \in
              {Message("assistant", clarification_question(l, <<"type">>)) : l \in {"en", "nl"}}
        /\ ~rendered.called
        /\ state.final_filepath = None

\* C12: a direct-mode text request with categorical data (A=10, B=20), given
\* without --type or --style and with nothing stored, ends in report_error
\* with a message listing both the missing chart type and the missing brand
\* style, and the process exits with code 1.
C12_DirectListsBothMissing ==
    (/\ pc \in {"END", "raised"}
     /\ state.interaction_mode = "direct"
     /\ "extract_data" \in Range(executed)
     /\ state.input_data = CategoricalData
     /\ request.type = None
     /\ request.style = None
     /\ Stored0 = DEFAULT_SETTINGS) =>
        /\ pc = "END"
        /\ Last(executed) = "report_error"
        /\ Contains(Last(state.messages).content, "Chart type")
        /\ Contains(Last(state.messages).content, "Brand style")
        /\ run_direct_mode_exit_code(state) = 1
        /\ ~rendered.called

\* extract_data has run and left a data list of fewer than 2 elements
FewerThanTwoPoints ==
    /\ "extract_data" \in Range(executed)
    /\ state.input_data.kind = "list"
    /\ Len(state.input_data.items) < 2

\* C13: whenever the extracted data list has fewer than 2 elements (the
\* single-point sentinel included), the request is rejected: generate_chart
\* does not run, no chart file is produced, and direct mode exits with code 1.
C13_InsufficientDataRejected ==
    FewerThanTwoPoints =>
        /\ ~rendered.called
        /\ state.final_filepath = None
        /\ (pc = "END" /\ state.interaction_mode = "direct") =>
              run_direct_mode_exit_code(state) = 1

\* every element of the list is a point whose value is 0
AllZero(data) ==
    /\ data.kind = "list"
    /\ data.items # <<>>
    /\ \A i \in 1..Len(data.items) :
          data.items[i].kind = "point" /\ data.items[i].value = 0

\* at least 2 points, one of them with a value other than 0
TwoPointsSomeNonZero(data) ==
    /\ data.kind = "list"
    /\ Len(data.items) >= 2
    /\ \A i \in 1..Len(data.items) : data.items[i].kind = "point"
    /\ \E i \in 1..Len(data.items) : data.items[i].value # 0

\* C14: whenever every value of the extracted data list is 0, the request is
\* rejected with an all-zero error and no chart is rendered (direct mode exits
\* with code 1); a list of at least 2 points with a non-zero value is not
\* rejected on that ground.
C14_AllZeroRejected ==
    "extract_data" \in Range(executed) =>
        /\ AllZero(state.input_data) =>
              /\ ~rendered.called
              /\ state.final_filepath = None
              /\ (pc = "END" /\ state.interaction_mode = "direct") =>
                    /\ run_direct_mode_exit_code(state) = 1
                    /\ Contains(Lower(Last(state.messages).content), "zero")
        /\ (pc = "END" /\ TwoPointsSomeNonZero(state.input_data)) =>
              ~Contains(Lower(Last(state.messages).content), "zero")

\* the label is empty once its blanks are trimmed
BlankLabel(label) == \A i \in 1..Len(label) : Char(label, i) \in Whitespace

\* the rules of C15: at least 2 records, each with a non-blank label and a
\* numeric value, the values not all 0
ValidChartData(data) ==
    /\ data.kind = "list"
    /\ Len(data.items) >= 2
    /\ \A i \in 1..Len(data.items) :
          /\ data.items[i].kind = "point"
          /\ ~BlankLabel(data.items[i].label)
          /\ data.items[i].value \in Int
    /\ \E i \in 1..Len(data.items) : data.items[i].value # 0

\* C15: matplotlib_chart_generator is only ever called from generate_chart
\* with data that passes every validation rule: at least 2 records, each with
\* a label that is non-empty after trimming and a numeric, finite value, the
\* values not all zero.
C15_RenderOnlyValidData ==
    rendered.called => ValidChartData(rendered.data)

\* C16: when the extractor's answer cannot be parsed as the expected object,
\* or holds no data, extract_data returns without raising, with input_data
\* exactly the one-point sentinel [{label: "unknown", value: 0}], and the
\* graph goes on to resolve_ambiguity.
C16_SentinelOnBadExtraction ==
    (Last(<<"none">> \o executed) = "extract_data"
        /\ extraction \in {"unparseable", "no data"}) =>
        /\ exc = "none"
        /\ pc = "resolve_ambiguity"
        /\ state.input_data = DataList(<<[kind |-> "point", label |-> "unknown", value |-> 0]>>)

C16_Witness ==
    /\ executed = <<"parse_intent", "extract_data">>
    /\ extraction = "unparseable"
    /\ state0.input_data = NoData
    /\ state.input_data = SentinelData
    /\ pc = "resolve_ambiguity"

\* parse_intent has run on a last user message that matches the data pattern
\* label (=|:) number
ClassifiedDataMessage ==
    /\ "parse_intent" \in Range(executed)
    /\ MatchesDataPattern(Last(state0.messages).content)

\* C17 as claimed: if the last user message matches the data pattern, the
\* intent after parse_intent is make_chart whatever the classifier answered:
\* off_topic, set_config, an invalid intent or unparseable output.
C17_DataPatternForcesMakeChart ==
    ClassifiedDataMessage => state.intent = "make_chart"

\* C17, amended: if the last user message matches the data pattern, the
\* intent after parse_intent is make_chart when the classifier answered
\* make_chart, off_topic, an invalid intent or unparseable output; an answer
\* of set_config is kept.
C17_DataPatternOverridesOffTopic ==
    ClassifiedDataMessage =>
        state.intent = IF verdict = "set_config" THEN "set_config" ELSE "make_chart"

C17_Witness ==
    /\ executed = <<"parse_intent">>
    /\ Last(state0.messages).content = "A=10, B=20"
    /\ verdict = "unparseable"
    /\ state.intent = "make_chart"
    /\ pc = "extract_data"

\* parse_intent has run, the classifier's answer was unusable, and the last
\* user message matches neither the data pattern nor the file pattern
UnusableVerdictPlainMessage ==
    /\ "parse_intent" \in Range(executed)
    /\ verdict = "unparseable"
    /\ ~MatchesDataPattern(Last(state0.messages).content)
    /\ ~MatchesFilePattern(Last(state0.messages).content)

\* C18 as claimed: when the classifier's answer is unusable and the message
\* matches neither the data pattern nor the file pattern, parse_intent yields
\* intent off_topic and has_file false, for every message text.
C18_UnusableDefaultsOffTopic ==
    UnusableVerdictPlainMessage =>
        /\ state.intent = "off_topic"
        /\ state.has_file = FALSE

\* C18, amended: in that case has_file is false, and intent is off_topic
\* unless the message holds the word chart or graph (in any case), where it
\* is make_chart.
C18_UnusableKeywordFallback ==
    UnusableVerdictPlainMessage =>
        /\ state.has_file = FALSE
        /\ LET text == Lower(Last(state0.messages).content)
           IN  state.intent = IF \E i \in 1..(Len(text) - 4) :
                                     \/ SubSeq(text, i, i + 4) = "chart"
                                     \/ SubSeq(text, i, i + 4) = "graph"
                                THEN "make_chart" ELSE "off_topic"

C18_Witness ==
    /\ executed = <<"parse_intent">>
    /\ verdict = "unparseable"
    /\ Last(state0.messages).content = "make me a sandwich"
    /\ state.intent = "off_topic"
    /\ state.has_file = FALSE
    /\ pc = "report_error"

\* the last_used_* fields a settings file holds
LastUsed(file) ==
    <<load_user_preferences(file).last_used_style, load_user_preferences(file).last_used_format>>

\* generate_chart has run in this invocation and the renderer returned a path
RenderSucceeded ==
    /\ "generate_chart" \in Range(executed)
    /\ exc = "none"

\* C19: last_used_style and last_used_format are written only by a
\* generate_chart whose renderer returned a file path, and then equal the
\* style and format of that chart; an invocation that ends in report_error,
\* ask_clarification, handle_config or a file error, or whose renderer
\* raised, leaves them as they were.
C19_LastUsedOnlyAfterRender ==
    /\ RenderSucceeded =>
          /\ state.final_filepath # None
          /\ LastUsed(settings_file) = <<rendered.style, rendered.format>>
    /\ ~RenderSucceeded => LastUsed(settings_file) = LastUsed(file0)

C19_Witness ==
    /\ RenderSucceeded
    /\ pc = "END"
    /\ LastUsed(file0) = <<None, None>>
    /\ rendered.style = "bnr"
    /\ rendered.format = "svg"
    /\ LastUsed(settings_file) = <<"bnr", "svg">>

\* the default_* fields a settings file holds
Defaults(file) ==
    <<load_user_preferences(file).default_style, load_user_preferences(file).default_format>>

\* C20: default_style and default_format change only in handle_config of an
\* invocation classified set_config, which sets the one field the request
\* names; make_chart invocations (successful renders included), off-topic
\* invocations and clarification turns never modify them.
C20_DefaultsOnlyByHandleConfig ==
    /\ Defaults(settings_file) # Defaults(file0) =>
          /\ "handle_config" \in Range(executed)
          /\ state.intent = "set_config"
          /\ verdict = "set_config"
          /\ Defaults(settings_file) =
                IF state.config_change.type = "style"
                THEN <<state.config_change.value, Defaults(file0)[2]>>
                ELSE <<Defaults(file0)[1], state.config_change.value>>
    /\ (\/ state.intent # "set_config"
        \/ "handle_config" \notin Range(executed)
        \/ Range(executed) \cap {"generate_chart", "report_error", "ask_clarification"} # {}) =>
          Defaults(settings_file) = Defaults(file0)

C20_Witness ==
    /\ executed = <<"parse_intent", "handle_config">>
    /\ pc = "END"
    /\ Defaults(file0) = <<None, "svg">>
    /\ state.config_change = [type |-> "style", value |-> "bnr"]
    /\ Defaults(settings_file) = <<"bnr", "svg">>

\* C21: once a set_config request has stored default_style bnr, every later
\* chart request that names no style is resolved, and rendered, with style
\* bnr, be it a later turn of the same conversational session or a new
\* direct-mode run without --style.
C21_StoredDefaultStyleUsed ==
    (/\ Stored0.default_style = "bnr"
     /\ state.intent = "make_chart"
     /\ request.style = None
     /\ "resolve_ambiguity" \in Range(executed)
     /\ exc = "none") =>
        /\ state.chart_request.style = "bnr"
        /\ rendered.called => rendered.style = "bnr"

\* a configuration value as the confirmation shows it
ShownValue(v) ==
    CASE v = "bnr" -> "BNR" [] v = "fd" -> "FD" [] v = "svg" -> "SVG" [] v = "png" -> "PNG"
      [] v = "neon" -> "NEON" [] OTHER -> "?"

\* C22: handle_config with a config_change of kind style (format) and value v
\* writes v to default_style (default_format), leaves the other three fields
\* of the store as they were and appends one confirmation naming the field
\* and v in upper case; with config_change absent or of an unknown kind it
\* leaves the store untouched and appends the could-not-understand message.
C22_HandleConfig ==
    (executed # <<>> /\ Last(executed) = "handle_config") =>
        LET change == state0.messages \o <<Last(state.messages)>>
            reply == Last(state.messages).content
            before == load_user_preferences(file0)
            after == load_user_preferences(settings_file)
            cc == state.config_change
        IN  /\ exc = "none"
            /\ state.messages = change
            /\ Last(state.messages).role = "assistant"
            /\ IF cc.type = "style" /\ cc.value # None
               THEN /\ after = [before EXCEPT !.default_style = cc.value]
                    /\ reply = "Your default style is now set to " \o ShownValue(cc.value) \o "."
               ELSE IF cc.type = "format" /\ cc.value # None
               THEN /\ after = [before EXCEPT !.default_format = cc.value]
                    /\ reply = "Your default format is now set to " \o ShownValue(cc.value) \o "."
               ELSE /\ settings_file = file0
                    /\ reply = "I couldn't understand that configuration change."

C22_Witness ==
    /\ executed = <<"parse_intent", "handle_config">>
    /\ state.config_change = [type |-> "format", value |-> "svg"]
    /\ load_user_preferences(file0) =
          [default_style |-> "fd", default_format |-> None,
           last_used_style |-> "bnr", last_used_format |-> None]
    /\ load_user_preferences(settings_file) =
          [default_style |-> "fd", default_format |-> "svg",
           last_used_style |-> "bnr", last_used_format |-> None]
    /\ Last(state.messages).content = "Your default format is now set to SVG."

\* the invocation ended in a saved chart or in a configuration change that
\* handle_config carried out
EndedInSuccess ==
    \/ Last(executed) = "generate_chart" /\ state.final_filepath # None
    \/ /\ Last(executed) = "handle_config"
       /\ state.config_change.type \in {"style", "format"}
       /\ state.config_change.value # None

\* C23: a direct-mode invocation exits with code 0 when it ended in a saved
\* chart or a confirmed configuration change, and with code 1 on every other
\* terminal outcome: off-topic rejection, unresolved missing parameter, file
\* error or any other terminal error message.
C23_DirectExitCode ==
    (pc = "END" /\ state.interaction_mode = "direct") =>
        run_direct_mode_exit_code(state) = IF EndedInSuccess THEN 0 ELSE 1

\* the invocation took a failure path: the file could not be read, or it
\* ended in report_error
TookFailurePath ==
    \/ parser_failure # None
    \/ "report_error" \in Range(executed)

\* C24: at the end of every invocation, later turns of a conversational
\* session included, final_filepath and error_message are not both present;
\* final_filepath is set only by a generate_chart that succeeded, and
\* error_message is present only if this invocation took a failure path.
C24_PathAndErrorExclusive ==
    pc = "END" =>
        /\ ~(state.final_filepath # None /\ state.error_message # None)
        /\ state.final_filepath # state0.final_filepath =>
              (Last(executed) = "generate_chart" /\ exc = "none")
        /\ state.error_message # None => TookFailurePath

\* C25: every invocation appends exactly one assistant message, so that at
\* its end the last message is the assistant's answer to the user message of
\* that turn; this holds for every turn of a conversational session, whatever
\* earlier turns left in the state.
C25_OneAssistantMessage ==
    pc = "END" =>
        /\ Len(state.messages) = Len(state0.messages) + 1
        /\ SubSeq(state.messages, 1, Len(state0.messages)) = state0.messages
        /\ Last(state.messages).role = "assistant"
        /\ Last(state0.messages).role = "user"

C28_RenderHasAllFields ==
    /\ rendered.called =>
           /\ Truthy(rendered.type)
           /\ Truthy(rendered.style)
           /\ Truthy(rendered.format)
    /\ (executed # <<>> /\ Last(executed) = "resolve_ambiguity" /\ exc = "none") =>
           /\ \A p \in {"type", "style"} :
                  Truthy(state.chart_request[p]) \/ p \in Range(state.missing_params)
           /\ Truthy(state.chart_request.format)
    /\ pc = "generate_chart" => state.missing_params = <<>>

\* a chart was rendered for a request that named no style and no format:
\* resolve_ambiguity filled both
C28_Witness ==
    /\ rendered.called
    /\ pc = "END"
    /\ "resolve_ambiguity" \in Range(executed)
    /\ state0.chart_request.format = None
    /\ Truthy(rendered.format)
    /\ Truthy(rendered.style)

MessagesPrefix(before, after) ==
    /\ Len(before) <= Len(after)
    /\ SubSeq(after, 1, Len(before)) = before

\* C29: within a session messages is append-only: over every node and every
\* turn the message sequence before the step is a prefix of the sequence
\* after it (a step to the prompt of a new process starts a new session).
C29_MessagesAppendOnly ==
    [][pc' # "cli" => MessagesPrefix(state.messages, state'.messages)]_vars

\* a second turn of one session has ended: two user messages and two
\* assistant answers, in the order they were said
C29_Witness ==
    /\ pc = "END"
    /\ turn >= 2
    /\ Len(state.messages) = 4
    /\ state.messages[1].role = "user"
    /\ state.messages[2].role = "assistant"
    /\ state.messages[3].role = "user"
    /\ state.messages[4].role = "assistant"

\* C30: in every state after parse_intent has classified the message,
\* config_change is present only if intent = set_config; a config_change
\* left by an earlier conversational turn does not survive a later turn
\* classified make_chart or off_topic.
C30_ConfigChangeOnlyForSetConfig ==
    executed # <<>> =>
        (state.config_change # NoConfigChange => state.intent = "set_config")

\* a later turn of a session that began with a config_change from an
\* earlier turn was classified as something other than set_config
C30_Witness ==
    /\ turn >= 2
    /\ state0.config_change # NoConfigChange
    /\ executed # <<>>
    /\ state.intent \in {"make_chart", "off_topic"}
    /\ state.config_change = NoConfigChange

(***************************************************************************)
(* The preference store on its own: one process calls the functions of     *)
(* config.py one after the other, starting without a settings file.        *)
(***************************************************************************)
\* the longest sequence of config.py calls
MaxCalls == 3

\* the arguments of save_user_preferences and update_last_used; None is the
\* default of the parameter
StoreStyles == {None, "fd", "bnr"}
StoreFormats == {None, "png", "svg"}

StoreInit ==
    /\ state = InitialState("direct")
    /\ settings_file = [exists |-> FALSE, content |-> DEFAULT_SETTINGS]
    /\ pc = "config"
    /\ exc = "none"
    /\ executed = <<>>
    /\ state0 = state
    /\ file0 = settings_file
    /\ request = Requested(EmptyChartRequest, None)
    /\ parser_failure = None
    /\ extraction = None
    /\ verdict = None
    /\ turn = 0
    /\ rendered = NotRendered
    /\ calls = <<>>
    /\ procs = <<>>

\* a config.py function ran to its end on the settings file
StoreCall(op, style, format, after, returned) ==
    /\ pc = "config"
    /\ Len(calls) < MaxCalls
    /\ settings_file' = after
    /\ calls' = Append(calls, [op |-> op, style |-> style, format |-> format,
                               before |-> settings_file, after |-> after,
                               returned |-> returned])
    /\ UNCHANGED <<state, pc, exc, executed, state0, file0, request, parser_failure,
                   extraction, verdict, turn, rendered, procs>>

LoadUserPreferences ==
    StoreCall("load_user_preferences", None, None,
              ensure_config_exists(settings_file), load_user_preferences(settings_file))

SaveUserPreferences ==
    \E default_style \in StoreStyles, default_format \in StoreFormats :
        StoreCall("save_user_preferences", default_style, default_format,
                  save_user_preferences(settings_file, default_style, default_format),
                  None)

UpdateLastUsed ==
    \E style \in StoreStyles, format \in StoreFormats :
        StoreCall("update_last_used", style, format,
                  update_last_used(settings_file, style, format), None)

StoreNext ==
    \/ LoadUserPreferences
    \/ SaveUserPreferences
    \/ UpdateLastUsed

StoreSpec == StoreInit /\ [][StoreNext]_vars

(***************************************************************************)
(* Properties of the preference store.                                     *)
(***************************************************************************)
\* the field values the first n calls wrote, starting from all absent
RECURSIVE WrittenBy(_, _)
WrittenBy(history, n) ==
    IF n = 0 THEN DEFAULT_SETTINGS
    ELSE LET earlier == WrittenBy(history, n - 1)
             c == history[n]
         IN  IF c.op = "save_user_preferences"
             THEN [earlier EXCEPT
                     !.default_style = IF c.style # None THEN c.style ELSE @,
                     !.default_format = IF c.format # None THEN c.format ELSE @]
             ELSE IF c.op = "update_last_used"
             THEN [earlier EXCEPT
                     !.last_used_style = IF c.style # None THEN c.style ELSE @,
                     !.last_used_format = IF c.format # None THEN c.format ELSE @]
             ELSE earlier

\* C31: a load when no settings file exists creates the file and returns all
\* four fields absent; after that, with one process, every load returns
\* exactly the field values written by the save_user_preferences and
\* update_last_used calls that preceded it.
C31_LoadReturnsWhatWasWritten ==
    \A i \in 1..Len(calls) :
        calls[i].op = "load_user_preferences" =>
            /\ calls[i].after.exists
            /\ ~calls[i].before.exists =>
                   /\ calls[i].returned = DEFAULT_SETTINGS
                   /\ calls[i].after.content = DEFAULT_SETTINGS
            /\ calls[i].returned = WrittenBy(calls, i - 1)
            /\ calls[i].after.content = calls[i].returned

\* a first load created the file, a save and an update followed, and the
\* last load returned both values
C31_Witness ==
    /\ Len(calls) >= 3
    /\ calls[1].op = "load_user_preferences"
    /\ ~calls[1].before.exists
    /\ \E i \in 2..Len(calls) :
          /\ calls[i].op = "load_user_preferences"
          /\ calls[i].returned # DEFAULT_SETTINGS

\* the field named f holds v if v was passed, and its earlier value otherwise
PassedOrKept(c, f, v) ==
    c.after.content[f] = IF v # None THEN v ELSE c.before.content[f]

\* C32: save_user_preferences changes only the default_* fields passed as
\* non-null and leaves last_used_* and every unpassed default_* field
\* unchanged; update_last_used changes only the last_used_* fields passed as
\* non-null and leaves default_* and every unpassed last_used_* field
\* unchanged.
C32_StoreFrame ==
    \A i \in 1..Len(calls) :
        LET c == calls[i]
        IN  /\ c.op = "save_user_preferences" =>
                  /\ PassedOrKept(c, "default_style", c.style)
                  /\ PassedOrKept(c, "default_format", c.format)
                  /\ c.after.content.last_used_style = c.before.content.last_used_style
                  /\ c.after.content.last_used_format = c.before.content.last_used_format
            /\ c.op = "update_last_used" =>
                  /\ PassedOrKept(c, "last_used_style", c.style)
                  /\ PassedOrKept(c, "last_used_format", c.format)
                  /\ c.after.content.default_style = c.before.content.default_style
                  /\ c.after.content.default_format = c.before.content.default_format

\* a save that passed only default_format ran on a file holding a default
\* style and a last-used style, and an update that passed only style ran on
\* a file holding defaults
C32_Witness ==
    /\ \E i \in 1..Len(calls) :
          /\ calls[i].op = "save_user_preferences"
          /\ calls[i].style = None
          /\ calls[i].format # None
          /\ calls[i].before.content.default_style # None
    /\ \E i \in 1..Len(calls) :
          /\ calls[i].op = "update_last_used"
          /\ calls[i].style # None
          /\ calls[i].format = None
          /\ calls[i].before.content.default_style # None

(***************************************************************************)
(* Properties of extract_data called on its own.                           *)
(***************************************************************************)
ChartParams == {"type", "style", "format"}

\* what extract_data read for parameter p from the answer: None when the
\* answer could not be parsed
Extracted(resp, p) == IF resp.ok THEN resp[p] ELSE None

\* the fallbacks the claim names, in its order
C33_NamedDefaults(prefs) ==
    [type |-> "bar",
     style |-> IF prefs.default_style # None THEN prefs.default_style
               ELSE IF prefs.last_used_style # None THEN prefs.last_used_style
               ELSE "fd",
     format |-> IF prefs.default_format # None THEN prefs.default_format
                ELSE IF prefs.last_used_format # None THEN prefs.last_used_format
                ELSE "png"]

GeneratedNames(format) ==
    {logical_name \o "-" \o timestamp \o "." \o Str(format) :
        logical_name \in LogicalNames, timestamp \in Timestamps}

\* C34: whenever the current request supplies no output filename (neither a
\* command-line flag nor a name in the query), the chart is rendered under a
\* generated name {logical-name}-{14-digit-timestamp}.{format}; this holds
\* in every turn of a conversational session: a filename supplied in an
\* earlier turn is not reused for a later turn's chart.
C34_GeneratedNameWhenNoneGiven ==
    (rendered.called /\ ~Truthy(request.filename)) =>
        /\ rendered.filename \in GeneratedNames(rendered.format)
        /\ \A t \in Timestamps : Len(t) = 14

(***************************************************************************)
(* Properties of is_categorical_data called on its own.                    *)
(***************************************************************************)
\* the keyword stands in the label as a word of its own
IsWordOf(label, keyword) ==
    \E i \in 1..(Len(label) - Len(keyword) + 1) :
        /\ SubSeq(label, i, i + Len(keyword) - 1) = keyword
        /\ i = 1 \/ Char(label, i - 1) \notin Letters \cup Digits
        /\ \/ i + Len(keyword) - 1 = Len(label)
           \/ Char(label, i + Len(keyword)) \notin Letters \cup Digits

\* the label, whatever its case, names a month, a quarter or a year 2020-2030
NamesTime(label) ==
    \E k \in 1..Len(time_keywords) : IsWordOf(Lower(label), time_keywords[k])

\* the labels at positions one to three
FirstThree(items) == SubSeq(items, 1, IF Len(items) < 3 THEN Len(items) ELSE 3)

\* C35: the classification depends only on the first three labels: data is
\* time-series iff at least one of the first three labels, compared
\* case-insensitively, matches a month name or abbreviation, a quarter token
\* or a year 2020-2030; labels at position four or later never change the
\* result, and empty or unparseable data is classified categorical.
C35_TimeSeriesIffFirstThreeNameTime ==
    (executed = <<"is_categorical_data">> /\ exc = "none") =>
        LET data == state.input_data
            categorical == calls[1].returned
        IN  IF ~TruthyData(data) THEN categorical
            ELSE /\ ~categorical <=>
                        \E i \in 1..Len(FirstThree(data.items)) :
                            NamesTime(data.items[i].label)
                 /\ categorical = is_categorical_data(DataList(FirstThree(data.items))).value

(***************************************************************************)
(* Properties of the data handed to the renderer.                          *)
(***************************************************************************)
\* a node of the current invocation stored input_data: extract_data, or
\* call_data_tool after it read the file
DataSetThisInvocation ==
    \/ "extract_data" \in Range(executed)
    \/ "call_data_tool" \in Range(executed) /\ state.has_file

\* C36: the chart is never rendered with chart data absent: on every path
\* that reaches generate_chart, the path through call_data_tool with no file
\* path in the message included, input_data was set during the invocation.
C36_RenderHasData ==
    rendered.called =>
        /\ rendered.data.kind # "none"
        /\ DataSetThisInvocation

(***************************************************************************)
(* Properties of the parameters of a turn.                                 *)
(***************************************************************************)
\* the chart_request the nodes of this invocation produce for the same
\* oracle answers, data and store when no turn came before: extract_data's
\* (or call_data_tool's) merge and defaults on an empty chart_request, then
\* resolve_ambiguity
FirstTurnChartRequest ==
    LET merged == merge_params(EmptyChartRequest, request.type, request.style,
                               request.format)
        filled == apply_defaults(merged, load_user_preferences(file0))
        fresh == GraphState(<<Last(state0.messages)>>, "conversational", "make_chart",
                            FALSE, NoConfigChange, rendered.data, filled, <<>>, None,
                            None, None)
    IN  resolve_ambiguity(fresh, file0).state.chart_request

\* C37: in a conversational session the type, style and format used in a
\* turn are a function of that turn's message (the oracle's answers to it),
\* the data and the stored preferences alone: the turn resolves to the same
\* parameters as it does in a session with the same store and no earlier
\* turns; values an earlier turn wrote into chart_request are not treated
\* as explicit parameters.
C37_TurnIndependentOfEarlierTurns ==
    (/\ rendered.called
     /\ state.interaction_mode = "conversational"
     /\ DataSetThisInvocation) =>
        [type |-> rendered.type, style |-> rendered.style, format |-> rendered.format]
            = FirstTurnChartRequest

Process(op, style) ==
    [op |-> op, style |-> style, at |-> "start", settings |-> DEFAULT_SETTINGS,
     loaded_after_other_wrote |-> FALSE, wrote_after_other_wrote |-> FALSE]

RaceInit ==
    /\ state = InitialState("direct")
    /\ settings_file \in SettingsFiles
    /\ pc = "config"
    /\ exc = "none"
    /\ executed = <<>>
    /\ state0 = state
    /\ file0 = settings_file
    /\ request = Requested(EmptyChartRequest, None)
    /\ parser_failure = None
    /\ extraction = None
    /\ verdict = None
    /\ turn = 0
    /\ rendered = NotRendered
    /\ calls = <<>>
    /\ \E v \in StoreStyles \ {None}, w \in StoreStyles \ {None} :
          procs = <<Process("save_user_preferences", v), Process("update_last_used", w)>>

\* process p takes one step of its call: the file becomes `file`, its
\* record becomes `proc`
ProcessStep(p, file, proc) ==
    /\ settings_file' = file
    /\ procs' = [procs EXCEPT ![p] = proc]
    /\ UNCHANGED <<state, pc, exc, executed, state0, file0, request, parser_failure,
                   extraction, verdict, turn, rendered, calls>>

\* the ensure_config_exists() that opens both functions
EnsureConfigExists ==
    \E p \in 1..2 :
        /\ procs[p].at = "start"
        /\ ProcessStep(p, ensure_config_exists(settings_file),
                       [procs[p] EXCEPT !.at = "ensured"])

\* settings = load_user_preferences()
LoadSettings ==
    \E p \in 1..2 :
        /\ procs[p].at = "ensured"
        /\ ProcessStep(p, ensure_config_exists(settings_file),
                       [procs[p] EXCEPT
                          !.at = "loaded",
                          !.settings = load_user_preferences(settings_file),
                          !.loaded_after_other_wrote = (procs[3 - p].at = "done")])

\* the file between open(CONFIG_FILE, 'w') and the end of json.dump: it
\* exists and json.load fails on it, so that load_user_preferences answers
\* DEFAULT_SETTINGS.copy(), as it does for a file holding DEFAULT_SETTINGS
BeingWritten == [exists |-> TRUE, content |-> DEFAULT_SETTINGS]

\* with open(CONFIG_FILE, 'w') as f
OpenForWriting ==
    \E p \in 1..2 :
        /\ procs[p].at = "loaded"
        /\ ProcessStep(p, BeingWritten, [procs[p] EXCEPT !.at = "opened"])

\* the settings are changed and written: json.dump(settings, f); the
\* function's changes apply to the settings the process loaded
WriteSettings ==
    \E p \in 1..2 :
        /\ procs[p].at = "opened"
        /\ ProcessStep(p,
                       LET loaded == [exists |-> TRUE, content |-> procs[p].settings]
                       IN  IF procs[p].op = "save_user_preferences"
                           THEN save_user_preferences(loaded, procs[p].style, None)
                           ELSE update_last_used(loaded, procs[p].style, None),
                       [procs[p] EXCEPT
                          !.at = "done",
                          !.wrote_after_other_wrote = (procs[3 - p].at = "done")])

RaceNext ==
    \/ EnsureConfigExists
    \/ LoadSettings
    \/ OpenForWriting
    \/ WriteSettings

RaceSpec == RaceInit /\ [][RaceNext]_vars

(***************************************************************************)
(* Properties of the shared settings file.                                 *)
(***************************************************************************)
BothDone == procs # <<>> /\ procs[1].at = "done" /\ procs[2].at = "done"

\* the field a process writes
FieldOf(p) == IF procs[p].op = "save_user_preferences" THEN "default_style"
              ELSE "last_used_style"

====
